---- MODULE Spec2Model ----
(***************************************************************************)
(* Model of memory_pool.hpp: MemoryPoolBlock<T> (an index array threaded   *)
(* into a free list, plus slot storage), FixedMemoryPool<T> (one block)    *)
(* and DynamicMemoryPool<T> (a growing array of BlockInfo records, one per *)
(* block).  One pool instance is modelled per behaviour; its kind, its     *)
(* capacity, alignof(T) and the build mode (NDEBUG or not) are drawn in    *)
(* Init.  The host allocator may fail any request.                         *)
(*                                                                         *)
(* Heap blocks are numbered 1, 2, ... in creation order; the storage of    *)
(* block b starts at address Base(b), slot i of block b is Base(b) + i     *)
(* (addresses are counted in units of sizeof(T)); 0 is the null pointer.   *)
(***************************************************************************)
EXTENDS Integers, Sequences, FiniteSets

\* ---------------------------------------------------------------- bounds
MaxCap == 2
MaxBlocks == 3
MaxOps == 8

\* width given to index_t, which is uint32_t: the checker's integers end at
\* 2^31 - 1, so the model narrows it; wrap-around is kept
IndexBits == 16

\* ------------------------------------------------------ program constants
\* sizeof(index_t)
IndexSize == 4
\* sizeof(MemoryPoolBlock<T>): two index_t fields
HeaderSize == 8

IndexMod == 2 ^ IndexBits

NULL == 0

\* alignof(T) of the element types modelled: not above sizeof(index_t), and above
AlignSet == {4, 8}

Caps == 0 .. MaxCap

\* distance between the storage areas of two consecutive heap blocks
Stride == MaxCap + 2

Base(b) == b * Stride

VARIABLES
    kind,               \* "fixed" | "dynamic"
    assertions,         \* TRUE: assert() is compiled in (NDEBUG undefined)
    alignofT,           \* alignof(T)
    cap,                \* the constructor's argument (max_entries / entries_per_block)
    status,             \* "new" | "ok" | "assert" | "ub" | "destroyed"
    blocks,             \* the heap: block b is blocks[b]
    heap,               \* host allocations made and not yet freed
    block_,             \* FixedMemoryPool::block_ (0 = nullptr)
    block_info_,        \* DynamicMemoryPool::block_info_, its records (<< >> = nullptr)
    num_blocks_,        \* DynamicMemoryPool::num_blocks_
    free_block_index_,  \* DynamicMemoryPool::free_block_index_
    live,               \* the caller's pointers: returned by allocate, not yet released
    n_alloc,            \* allocate calls that returned non-null
    n_release,          \* release calls on non-null pointers
    failed,             \* some host request (aligned_malloc, realloc) has failed
    nops,               \* calls made so far
    last                \* the last call: what it was given and what it returned

vars == << kind, assertions, alignofT, cap, status, blocks, heap, block_, block_info_,
           num_blocks_, free_block_index_, live, n_alloc, n_release, failed, nops, last >>

config == << kind, assertions, alignofT, cap >>
pool == << blocks, heap, block_, block_info_, num_blocks_, free_block_index_ >>
ghost == << live, n_alloc, n_release >>

NoStats == [block_count |-> 0, allocation_count |-> 0]

\* op: the call; ptr: the pointer given (release) or returned (allocate);
\* visits: the pointers for_each handed to the visitor; stats: get_stats' result;
\* fail: the host request that failed during the call ("none", "malloc", "realloc");
\* grew: the call found no block with free space and went to add_block;
\* after: the pointer released by the call just before this one (NULL: that
\* call was no release, or released the null pointer)
Call(op, ptr, visits, stats, fail, grew) ==
    [op |-> op, ptr |-> ptr, visits |-> visits, stats |-> stats, fail |-> fail,
     grew |-> grew, after |-> IF last.op = "release" THEN last.ptr ELSE NULL]

\* ------------------------------------------------------- aligned storage
align_to(n, align) == ((n + align - 1) \div align) * align

\* the constructor with the chain closed into a ring: the last entry links back
\* to entry 0 and no entry holds the end-of-list value n
MemoryPoolBlock_Ring(n) ==
    [free_head_index_ |-> 0,
     entries_per_block_ |-> n,
     indices |-> [i \in 0 .. (n - 1) |-> IF i + 1 = n THEN 0 ELSE i + 1]]

\* ------------------------------------------------------------------ block
\* the constructor: free_head_index_ = 0 and the chain indices[i] = i + 1
MemoryPoolBlock(n) ==
    [free_head_index_ |-> 0,
     entries_per_block_ |-> n,
     indices |-> [i \in 0 .. (n - 1) |-> (i + 1) % IndexMod]]

\* byte offset of indices_begin() from the block: this + 1
indices_begin == HeaderSize

\* byte offset of memory_begin() from the block: indices_begin() + entries_per_block_
memory_begin(n) == indices_begin + IndexSize * n

\* create()'s second assertion, on a block of n entries
CreateAssertHolds(n) ==
    memory_begin(n) = HeaderSize + align_to(IndexSize * n, alignofT)

\* MemoryPoolBlock::create.  ok: aligned_malloc succeeded.  lucky: how the read
\* of ptr->entries_per_block_ through the null ptr (the assertions, when ptr is
\* null) turns out: TRUE, the value is taken from the argument and the
\* assertion is evaluated; FALSE, the read faults.
\* st: "ok" (returned ptr), "assert" (an assertion failed), "ub" (the fault).
create(n, ok, lucky) ==
    IF ok
    THEN LET b == Len(blocks) + 1 IN
         [st |-> IF assertions /\ ~CreateAssertHolds(n) THEN "assert" ELSE "ok",
          ptr |-> b,
          blocks |-> Append(blocks, MemoryPoolBlock(n)),
          heap |-> heap \cup {<<"block", b>>}]
    ELSE [st |-> IF ~assertions THEN "ok"
                 ELSE IF ~lucky THEN "ub"
                 ELSE IF CreateAssertHolds(n) THEN "ok" ELSE "assert",
          ptr |-> NULL,
          blocks |-> blocks,
          heap |-> heap]

\* the slots of block blk that for_each visits, in the order of its loop
RECURSIVE BlockVisits(_, _)
BlockVisits(blk, i) ==
    IF i = blk.entries_per_block_ THEN << >>
    ELSE (IF blk.indices[i] = i THEN << i >> ELSE << >>) \o BlockVisits(blk, i + 1)

\* MemoryPoolBlock::for_each on heap block b: the pointers handed to func
BlockForEach(b) ==
    LET v == BlockVisits(blocks[b], 0) IN
    [k \in 1 .. Len(v) |-> Base(b) + v[k]]

count_allocations(b) == Len(BlockForEach(b))

\* new_object that marks the slot used but leaves the head of the free list on it
BlockNewObject_NoAdvance(blk, b) ==
    LET index == blk.free_head_index_ IN
    IF index # blk.entries_per_block_
    THEN [blk |-> [blk EXCEPT !.indices[index] = index],
          ptr |-> Base(b) + index,
          bad |-> FALSE]
    ELSE [blk |-> blk, ptr |-> NULL, bad |-> FALSE]

\* MemoryPoolBlock::new_object on block record blk of heap block b.
\* ptr: the result; bad: the assertion indices[index] != index failed
BlockNewObject(blk, b) ==
    LET index == blk.free_head_index_ IN
    IF index # blk.entries_per_block_
    THEN [blk |-> [blk EXCEPT !.free_head_index_ = blk.indices[index],
                              !.indices[index] = index],
          ptr |-> Base(b) + index,
          bad |-> assertions /\ blk.indices[index] = index]
    ELSE [blk |-> blk, ptr |-> NULL, bad |-> FALSE]

\* delete_object with its last two assignments exchanged: the head is moved to
\* the slot before the slot's link is written, so the slot keeps its own index
BlockDeleteObject_HeadFirst(blk, b, ptr) ==
    IF ptr = NULL THEN [blk |-> blk, st |-> "ok"]
    ELSE LET index == ptr - Base(b) IN
         [blk |-> [blk EXCEPT !.indices[index] = index, !.free_head_index_ = index],
          st |-> "ok"]

\* delete_object that ends the free list at the released entry: the entry is
\* linked to the end-of-list value instead of the old head
BlockDeleteObject_DropsList(blk, b, ptr) ==
    IF ptr = NULL THEN [blk |-> blk, st |-> "ok"]
    ELSE LET index == ptr - Base(b) IN
         [blk |-> [blk EXCEPT !.indices[index] = blk.entries_per_block_,
                              !.free_head_index_ = index],
          st |-> "ok"]

\* delete_object without the assertion indices[index] == index: an entry that
\* holds no live object is pushed on the free list again
BlockDeleteObject_NoLiveCheck(blk, b, ptr) ==
    IF ptr = NULL THEN [blk |-> blk, st |-> "ok"]
    ELSE LET begin == Base(b)
             end == begin + blk.entries_per_block_
             index == ptr - begin
         IN  IF ~(ptr >= begin /\ ptr < end)
             THEN [blk |-> blk, st |-> IF assertions THEN "assert" ELSE "ub"]
             ELSE [blk |-> [blk EXCEPT !.indices[index] = blk.free_head_index_,
                                       !.free_head_index_ = index],
                   st |-> "ok"]

\* MemoryPoolBlock::delete_object on block record blk of heap block b.
\* st: "ok", "assert" (a failed assertion), "ub" (an index outside the block
\* with the assertions compiled out)
BlockDeleteObject(blk, b, ptr) ==
    IF ptr = NULL THEN [blk |-> blk, st |-> "ok"]
    ELSE LET begin == Base(b)
             end == begin + blk.entries_per_block_
             index == ptr - begin
         IN  IF ~(ptr >= begin /\ ptr < end)
             THEN [blk |-> blk, st |-> IF assertions THEN "assert" ELSE "ub"]
             ELSE IF assertions /\ blk.indices[index] # index
             THEN [blk |-> blk, st |-> "assert"]
             ELSE [blk |-> [blk EXCEPT !.indices[index] = blk.free_head_index_,
                                       !.free_head_index_ = index],
                   st |-> "ok"]

\* ------------------------------------------------------------- fixed pool
\* FixedMemoryPool::new_object: block_->new_object(...); through a null block_
\* the read of free_head_index_ faults
FixedNew ==
    IF block_ = NULL
    THEN [st |-> "ub", ptr |-> NULL, blocks |-> blocks]
    ELSE LET r == BlockNewObject(blocks[block_], block_) IN
         [st |-> IF r.bad THEN "assert" ELSE "ok",
          ptr |-> r.ptr,
          blocks |-> IF r.bad THEN blocks ELSE [blocks EXCEPT ![block_] = r.blk]]

\* FixedMemoryPool::delete_object: block_->delete_object(ptr); a null ptr
\* returns before the block is touched
FixedDelete(ptr) ==
    IF ptr = NULL THEN [st |-> "ok", blocks |-> blocks]
    ELSE IF block_ = NULL THEN [st |-> "ub", blocks |-> blocks]
    ELSE LET d == BlockDeleteObject(blocks[block_], block_, ptr) IN
         [st |-> d.st, blocks |-> [blocks EXCEPT ![block_] = d.blk]]

\* FixedMemoryPool::for_each
FixedForEach == BlockForEach(block_)

\* FixedMemoryPool::get_stats
FixedGetStats ==
    [block_count |-> 1, allocation_count |-> Len(BlockForEach(block_))]

\* ----------------------------------------------------------- dynamic pool
\* DynamicMemoryPool::entries_per_block_
entries_per_block_ == cap

BlockInfo(num_free, offset, block) ==
    [num_free_ |-> num_free, offset_ |-> offset, block_ |-> block]

\* no BlockInfo (add_block's nullptr)
NoInfo == -1

\* realloc(block_info_, n * sizeof(BlockInfo)) succeeding: the old records,
\* followed by storage for one more
Grown(info) == Append(info, BlockInfo(0, NULL, NULL))

\* DynamicMemoryPool::add_block, entered with free_block_index_ = hint.
\* ok, lucky: see create.  rok: realloc succeeded.
\* info: the index of the record returned, or NoInfo
add_block(hint, ok, lucky, rok) ==
    IF assertions /\ hint # num_blocks_
    THEN [st |-> "assert", info |-> NoInfo, blocks |-> blocks, heap |-> heap,
          block_info_ |-> block_info_, num_blocks_ |-> num_blocks_, fail |-> "none"]
    ELSE LET c == create(entries_per_block_, ok, lucky) IN
         IF c.st # "ok" \/ c.ptr = NULL
         THEN [st |-> c.st, info |-> NoInfo, blocks |-> c.blocks, heap |-> c.heap,
               block_info_ |-> block_info_, num_blocks_ |-> num_blocks_,
               fail |-> IF ok THEN "none" ELSE "malloc"]
         ELSE IF ~rok
         THEN \* block_info_ = nullptr, then the write through it
              [st |-> "ub", info |-> NoInfo, blocks |-> c.blocks, heap |-> c.heap,
               block_info_ |-> << >>, num_blocks_ |-> (num_blocks_ + 1) % IndexMod,
               fail |-> "realloc"]
         ELSE [st |-> "ok", info |-> hint, blocks |-> c.blocks,
               heap |-> c.heap \cup {<<"info", 0>>},
               block_info_ |-> [Grown(block_info_) EXCEPT ![hint + 1] =
                                   BlockInfo(entries_per_block_, Base(c.ptr), c.ptr)],
               num_blocks_ |-> (num_blocks_ + 1) % IndexMod,
               fail |-> "none"]

\* the search loop with its test inverted: it passes the records that have
\* free entries and stops at the first full one
RECURSIVE Scan_SkipsFree(_)
Scan_SkipsFree(h) ==
    IF h # num_blocks_ /\ block_info_[h + 1].num_free_ # 0 THEN Scan_SkipsFree(h + 1)
    ELSE h

\* the search loop cut down to one test: the hinted record if it has a free
\* entry, else num_blocks_ without a look at the records after it
Scan_HintOnly(h) ==
    IF h # num_blocks_ /\ block_info_[h + 1].num_free_ = 0 THEN num_blocks_ ELSE h

\* the search loop of new_object: the first index from h on whose record has
\* num_free_ # 0, or num_blocks_
RECURSIVE Scan(_)
Scan(h) ==
    IF h # num_blocks_ /\ block_info_[h + 1].num_free_ = 0 THEN Scan(h + 1) ELSE h

\* the tail of new_object: construct the object in the block of record k
Place(bl, hp, bi, nb, hint, k, grew) ==
    LET b == bi[k + 1].block_
        r == BlockNewObject(bl[b], b)
    IN  IF r.bad \/ (assertions /\ r.ptr = NULL)
        THEN [st |-> "assert", ptr |-> NULL, blocks |-> bl, heap |-> hp,
              block_info_ |-> bi, num_blocks_ |-> nb, free_block_index_ |-> hint,
              fail |-> "none", grew |-> grew]
        ELSE [st |-> "ok", ptr |-> r.ptr,
              blocks |-> [bl EXCEPT ![b] = r.blk], heap |-> hp,
              block_info_ |-> [bi EXCEPT ![k + 1].num_free_ =
                                  (bi[k + 1].num_free_ - 1) % IndexMod],
              num_blocks_ |-> nb, free_block_index_ |-> hint,
              fail |-> "none", grew |-> grew]

\* DynamicMemoryPool::new_object
DynNew(ok, lucky, rok) ==
    IF assertions /\ ~(free_block_index_ < num_blocks_)
    THEN [st |-> "assert", ptr |-> NULL, blocks |-> blocks, heap |-> heap,
          block_info_ |-> block_info_, num_blocks_ |-> num_blocks_,
          free_block_index_ |-> free_block_index_, fail |-> "none", grew |-> FALSE]
    ELSE LET hint == Scan(free_block_index_) IN
         IF hint = num_blocks_
         THEN LET a == add_block(hint, ok, lucky, rok) IN
              IF a.info = NoInfo
              THEN [st |-> a.st, ptr |-> NULL, blocks |-> a.blocks, heap |-> a.heap,
                    block_info_ |-> a.block_info_, num_blocks_ |-> a.num_blocks_,
                    free_block_index_ |-> hint, fail |-> a.fail, grew |-> TRUE]
              ELSE Place(a.blocks, a.heap, a.block_info_, a.num_blocks_, hint,
                         a.info, TRUE)
         ELSE Place(blocks, heap, block_info_, num_blocks_, hint, hint, FALSE)

\* the search loop with the end of the storage range taken as part of it
RECURSIVE Find_InclusiveEnd(_, _)
Find_InclusiveEnd(ptr, k) ==
    IF k = num_blocks_ THEN k
    ELSE LET p_entries_begin == block_info_[k + 1].offset_
             p_entries_end == p_entries_begin + entries_per_block_
         IN  IF ptr >= p_entries_begin /\ ptr <= p_entries_end THEN k
             ELSE Find_InclusiveEnd(ptr, k + 1)

\* the search loop of delete_object: the first record from k on whose storage
\* range holds ptr, or num_blocks_
RECURSIVE Find(_, _)
Find(ptr, k) ==
    IF k = num_blocks_ THEN k
    ELSE LET p_entries_begin == block_info_[k + 1].offset_
             p_entries_end == p_entries_begin + entries_per_block_
         IN  IF ptr >= p_entries_begin /\ ptr < p_entries_end THEN k
             ELSE Find(ptr, k + 1)

\* delete_object that leaves free_block_index_ where it is
DynDelete_KeepsHint(ptr) ==
    LET k == Find(ptr, 0) IN
    IF k = num_blocks_
    THEN [st |-> "ok", blocks |-> blocks, block_info_ |-> block_info_,
          free_block_index_ |-> free_block_index_]
    ELSE LET b == block_info_[k + 1].block_
             d == BlockDeleteObject(blocks[b], b, ptr)
         IN  [st |-> d.st,
              blocks |-> [blocks EXCEPT ![b] = d.blk],
              block_info_ |-> [block_info_ EXCEPT ![k + 1].num_free_ =
                                  (block_info_[k + 1].num_free_ + 1) % IndexMod],
              free_block_index_ |-> free_block_index_]

\* delete_object that moves free_block_index_ to the block of every released
\* object, also when that block comes after the hint
DynDelete_AlwaysSetsHint(ptr) ==
    LET k == Find(ptr, 0) IN
    IF k = num_blocks_
    THEN [st |-> "ok", blocks |-> blocks, block_info_ |-> block_info_,
          free_block_index_ |-> free_block_index_]
    ELSE LET b == block_info_[k + 1].block_
             d == BlockDeleteObject(blocks[b], b, ptr)
         IN  [st |-> d.st,
              blocks |-> [blocks EXCEPT ![b] = d.blk],
              block_info_ |-> [block_info_ EXCEPT ![k + 1].num_free_ =
                                  (block_info_[k + 1].num_free_ + 1) % IndexMod],
              free_block_index_ |-> k]

\* DynamicMemoryPool::delete_object
DynDelete(ptr) ==
    LET k == Find(ptr, 0) IN
    IF k = num_blocks_
    THEN [st |-> "ok", blocks |-> blocks, block_info_ |-> block_info_,
          free_block_index_ |-> free_block_index_]
    ELSE LET b == block_info_[k + 1].block_
             d == BlockDeleteObject(blocks[b], b, ptr)
         IN  IF d.st # "ok"
             THEN [st |-> d.st, blocks |-> blocks, block_info_ |-> block_info_,
                   free_block_index_ |-> free_block_index_]
             ELSE [st |-> "ok",
                   blocks |-> [blocks EXCEPT ![b] = d.blk],
                   block_info_ |-> [block_info_ EXCEPT ![k + 1].num_free_ =
                                       (block_info_[k + 1].num_free_ + 1) % IndexMod],
                   free_block_index_ |-> IF k < free_block_index_ THEN k
                                         ELSE free_block_index_]

\* the skip test turned into "the block is full"
NotEmpty_OnlyFull(k) == block_info_[k + 1].num_free_ = 0

\* the block of record k is not skipped by for_each and get_stats
NotEmpty(k) == block_info_[k + 1].num_free_ < entries_per_block_

\* DynamicMemoryPool::for_each, from record k on
RECURSIVE DynVisits(_)
DynVisits(k) ==
    IF k = num_blocks_ THEN << >>
    ELSE (IF NotEmpty(k) THEN BlockForEach(block_info_[k + 1].block_) ELSE << >>)
         \o DynVisits(k + 1)

DynForEach == DynVisits(0)

\* DynamicMemoryPool::get_stats, from record k on with the counts so far
RECURSIVE DynStats(_, _)
DynStats(k, stats) ==
    IF k = num_blocks_ THEN stats
    ELSE DynStats(k + 1,
           [block_count |-> stats.block_count + 1,
            allocation_count |-> stats.allocation_count +
                (IF NotEmpty(k) THEN count_allocations(block_info_[k + 1].block_)
                 ELSE 0)])

\* get_stats that looks at the first block only
DynGetStats_FirstOnly ==
    [block_count |-> num_blocks_,
     allocation_count |-> IF num_blocks_ # 0 /\ NotEmpty(0)
                          THEN count_allocations(block_info_[1].block_) ELSE 0]

DynGetStats == DynStats(0, NoStats)

\* MemoryPoolBlock::destroy on heap block b: the destructor's assertion, then
\* aligned_free
destroy(b) ==
    IF b # NULL /\ assertions /\ count_allocations(b) # 0
    THEN [st |-> "assert", heap |-> heap]
    ELSE [st |-> "destroyed", heap |-> heap \ {<<"block", b>>}]

\* ---------------------------------------------------------------- actions
Init ==
    /\ kind \in {"fixed", "dynamic"}
    /\ assertions \in BOOLEAN
    /\ alignofT \in AlignSet
    /\ cap \in Caps
    /\ status = "new"
    /\ blocks = << >>
    /\ heap = {}
    /\ block_ = NULL
    /\ block_info_ = << >>
    /\ num_blocks_ = 0
    /\ free_block_index_ = 0
    /\ live = {}
    /\ n_alloc = 0
    /\ n_release = 0
    /\ failed = FALSE
    /\ nops = 0
    /\ last = [op |-> "none", ptr |-> NULL, visits |-> << >>, stats |-> NoStats,
               fail |-> "none", grew |-> FALSE, after |-> NULL]

\* FixedMemoryPool::FixedMemoryPool
FixedCtor ==
    /\ kind = "fixed" /\ status = "new"
    /\ \E ok, lucky \in BOOLEAN :
         LET c == create(cap, ok, lucky) IN
         /\ status' = c.st
         /\ blocks' = c.blocks
         /\ heap' = c.heap
         /\ block_' = IF c.st = "ok" THEN c.ptr ELSE NULL
         /\ failed' = ~ok
         /\ last' = Call("construct", NULL, << >>, NoStats,
                         IF ok THEN "none" ELSE "malloc", FALSE)
    /\ UNCHANGED << config, block_info_, num_blocks_, free_block_index_, ghost, nops >>

\* DynamicMemoryPool::DynamicMemoryPool
DynCtor ==
    /\ kind = "dynamic" /\ status = "new"
    /\ \E ok, lucky, rok \in BOOLEAN :
         LET a == add_block(0, ok, lucky, rok) IN
         /\ status' = a.st
         /\ blocks' = a.blocks
         /\ heap' = a.heap
         /\ block_info_' = a.block_info_
         /\ num_blocks_' = a.num_blocks_
         /\ failed' = (a.fail # "none")
         /\ last' = Call("construct", NULL, << >>, NoStats, a.fail, TRUE)
    /\ UNCHANGED << config, block_, free_block_index_, ghost, nops >>

\* what a returned pointer does to the caller's books
Took(st, ptr) ==
    /\ live' = IF st = "ok" /\ ptr # NULL THEN live \cup {ptr} ELSE live
    /\ n_alloc' = IF st = "ok" /\ ptr # NULL THEN n_alloc + 1 ELSE n_alloc
    /\ UNCHANGED n_release

Gave(ptr) ==
    /\ live' = live \ {ptr}
    /\ n_release' = IF ptr # NULL THEN n_release + 1 ELSE n_release
    /\ UNCHANGED n_alloc

\* FixedMemoryPool::new_object
FixedNewObject ==
    /\ kind = "fixed" /\ status = "ok" /\ nops < MaxOps
    /\ LET r == FixedNew IN
       /\ status' = r.st
       /\ blocks' = r.blocks
       /\ Took(r.st, r.ptr)
       /\ last' = Call("allocate", r.ptr, << >>, NoStats, "none", FALSE)
    /\ nops' = nops + 1
    /\ UNCHANGED << config, heap, block_, block_info_, num_blocks_, free_block_index_,
                    failed >>

\* DynamicMemoryPool::new_object.  The host allocator grants at most MaxBlocks
\* blocks; past that, aligned_malloc fails.
DynNewObject ==
    /\ kind = "dynamic" /\ status = "ok" /\ nops < MaxOps
    /\ \E ok, lucky, rok \in BOOLEAN :
         /\ ok => Len(blocks) < MaxBlocks
         /\ LET r == DynNew(ok, lucky, rok) IN
            /\ status' = r.st
            /\ blocks' = r.blocks
            /\ heap' = r.heap
            /\ block_info_' = r.block_info_
            /\ num_blocks_' = r.num_blocks_
            /\ free_block_index_' = r.free_block_index_
            /\ Took(r.st, r.ptr)
            /\ failed' = (failed \/ r.fail # "none")
            /\ last' = Call("allocate", r.ptr, << >>, NoStats, r.fail, r.grew)
    /\ nops' = nops + 1
    /\ UNCHANGED << config, block_ >>

\* FixedMemoryPool::delete_object, given a pointer the caller holds, or null
FixedDeleteObject ==
    /\ kind = "fixed" /\ status = "ok" /\ nops < MaxOps
    /\ \E ptr \in live \cup {NULL} :
         LET d == FixedDelete(ptr) IN
         /\ status' = d.st
         /\ blocks' = d.blocks
         /\ Gave(ptr)
         /\ last' = Call("release", ptr, << >>, NoStats, "none", FALSE)
    /\ nops' = nops + 1
    /\ UNCHANGED << config, heap, block_, block_info_, num_blocks_, free_block_index_,
                    failed >>

\* DynamicMemoryPool::delete_object, given a pointer the caller holds, or null
DynDeleteObject ==
    /\ kind = "dynamic" /\ status = "ok" /\ nops < MaxOps
    /\ \E ptr \in live \cup {NULL} :
         LET d == DynDelete(ptr) IN
         /\ status' = d.st
         /\ blocks' = d.blocks
         /\ block_info_' = d.block_info_
         /\ free_block_index_' = d.free_block_index_
         /\ Gave(ptr)
         /\ last' = Call("release", ptr, << >>, NoStats, "none", FALSE)
    /\ nops' = nops + 1
    /\ UNCHANGED << config, heap, block_, num_blocks_, failed >>

\* FixedMemoryPool::for_each with a visitor that records its argument
FixedForEachCall ==
    /\ kind = "fixed" /\ status = "ok" /\ nops < MaxOps
    /\ IF block_ = NULL
       THEN /\ status' = "ub"
            /\ last' = Call("for_each", NULL, << >>, NoStats, "none", FALSE)
       ELSE /\ status' = status
            /\ last' = Call("for_each", NULL, FixedForEach, NoStats, "none", FALSE)
    /\ nops' = nops + 1
    /\ UNCHANGED << config, pool, ghost, failed >>

\* DynamicMemoryPool::for_each with a visitor that records its argument
DynForEachCall ==
    /\ kind = "dynamic" /\ status = "ok" /\ nops < MaxOps
    /\ last' = Call("for_each", NULL, DynForEach, NoStats, "none", FALSE)
    /\ nops' = nops + 1
    /\ UNCHANGED << config, status, pool, ghost, failed >>

\* FixedMemoryPool::get_stats
FixedGetStatsCall ==
    /\ kind = "fixed" /\ status = "ok" /\ nops < MaxOps
    /\ IF block_ = NULL
       THEN /\ status' = "ub"
            /\ last' = Call("get_stats", NULL, << >>, NoStats, "none", FALSE)
       ELSE /\ status' = status
            /\ last' = Call("get_stats", NULL, << >>, FixedGetStats, "none", FALSE)
    /\ nops' = nops + 1
    /\ UNCHANGED << config, pool, ghost, failed >>

\* DynamicMemoryPool::get_stats
DynGetStatsCall ==
    /\ kind = "dynamic" /\ status = "ok" /\ nops < MaxOps
    /\ last' = Call("get_stats", NULL, << >>, DynGetStats, "none", FALSE)
    /\ nops' = nops + 1
    /\ UNCHANGED << config, status, pool, ghost, failed >>

\* FixedMemoryPool::~FixedMemoryPool: the assertion on get_stats, then
\* Block::destroy(block_)
FixedDtor ==
    /\ kind = "fixed" /\ status = "ok"
    /\ IF assertions /\ block_ = NULL
       THEN status' = "ub" /\ heap' = heap
       ELSE IF assertions /\ FixedGetStats.allocation_count # 0
       THEN status' = "assert" /\ heap' = heap
       ELSE LET d == destroy(block_) IN status' = d.st /\ heap' = d.heap
    /\ last' = Call("destroy", NULL, << >>, NoStats, "none", FALSE)
    /\ UNCHANGED << config, blocks, block_, block_info_, num_blocks_,
                    free_block_index_, ghost, failed, nops >>

\* DynamicMemoryPool::~DynamicMemoryPool: the assertion on get_stats, nothing else
DynDtor ==
    /\ kind = "dynamic" /\ status = "ok"
    /\ status' = IF assertions /\ DynGetStats.allocation_count # 0
                 THEN "assert" ELSE "destroyed"
    /\ last' = Call("destroy", NULL, << >>, NoStats, "none", FALSE)
    /\ UNCHANGED << config, pool, ghost, failed, nops >>

Next ==
    \/ FixedCtor
    \/ DynCtor
    \/ FixedNewObject
    \/ DynNewObject
    \/ FixedDeleteObject
    \/ DynDeleteObject
    \/ FixedForEachCall
    \/ DynForEachCall
    \/ FixedGetStatsCall
    \/ DynGetStatsCall
    \/ FixedDtor
    \/ DynDtor

Spec == Init /\ [][Next]_vars

\* ----------------------------------------------------------------- misuse
\* the heap blocks the pool owns: block_, or the block_ of each BlockInfo
OwnedBlocks ==
    IF kind = "fixed" THEN {block_} \ {NULL}
    ELSE {block_info_[k].block_ : k \in 1 .. num_blocks_}

\* the storage entries of the blocks the pool owns
OwnedSlots == UNION {{Base(b) + i : i \in 0 .. (cap - 1)} : b \in OwnedBlocks}

\* pointers into no owned block: for each owned block the address one past
\* its storage and the address just before it
ForeignPtrs ==
    {Base(b) + cap : b \in OwnedBlocks} \cup {Base(b) - 1 : b \in OwnedBlocks}

\* FixedMemoryPool::delete_object, given a pointer to an entry of the block
\* that holds no live object (released before, or never handed out)
FixedDeleteDead ==
    /\ kind = "fixed" /\ status = "ok" /\ nops < MaxOps
    /\ \E ptr \in OwnedSlots \ live :
         LET d == FixedDelete(ptr) IN
         /\ status' = d.st
         /\ blocks' = d.blocks
         /\ last' = Call("release", ptr, << >>, NoStats, "none", FALSE)
    /\ nops' = nops + 1
    /\ UNCHANGED << config, heap, block_, block_info_, num_blocks_, free_block_index_,
                    ghost, failed >>

\* DynamicMemoryPool::delete_object, given a pointer to an entry of an owned
\* block that holds no live object
DynDeleteDead ==
    /\ kind = "dynamic" /\ status = "ok" /\ nops < MaxOps
    /\ \E ptr \in OwnedSlots \ live :
         LET d == DynDelete(ptr) IN
         /\ status' = d.st
         /\ blocks' = d.blocks
         /\ block_info_' = d.block_info_
         /\ free_block_index_' = d.free_block_index_
         /\ last' = Call("release", ptr, << >>, NoStats, "none", FALSE)
    /\ nops' = nops + 1
    /\ UNCHANGED << config, heap, block_, num_blocks_, ghost, failed >>

\* DynamicMemoryPool::delete_object, given a pointer into no owned block
DynDeleteForeign ==
    /\ kind = "dynamic" /\ status = "ok" /\ nops < MaxOps
    /\ \E ptr \in ForeignPtrs :
         LET d == DynDelete(ptr) IN
         /\ status' = d.st
         /\ blocks' = d.blocks
         /\ block_info_' = d.block_info_
         /\ free_block_index_' = d.free_block_index_
         /\ last' = Call("release", ptr, << >>, NoStats, "none", FALSE)
    /\ nops' = nops + 1
    /\ UNCHANGED << config, heap, block_, num_blocks_, ghost, failed >>

\* the interface with callers that also release entries they do not hold
NextDead ==
    \/ Next
    \/ FixedDeleteDead
    \/ DynDeleteDead

SpecDead == Init /\ [][NextDead]_vars

\* the interface with callers that also release pointers into no block
NextForeign ==
    \/ Next
    \/ DynDeleteForeign

SpecForeign == Init /\ [][NextForeign]_vars

\* ----------------------------------------------------------------- claims
\* the heap block and the slot a pointer names
BlockOf(p) == p \div Stride
SlotOf(p) == p % Stride

\* the objects the caller holds: allocations that succeeded minus releases
LiveCount == n_alloc - n_release

\* the pool answers calls: it is constructed, has not aborted and, when fixed,
\* has its block
Usable == status = "ok" /\ (kind = "fixed" => block_ # NULL)

PoolStats == IF kind = "fixed" THEN FixedGetStats ELSE DynGetStats
PoolVisits == IF kind = "fixed" THEN FixedForEach ELSE DynForEach

\* C1: for a fixed and for a dynamic pool, after any sequence of allocate and
\* release calls that respects ownership, get_stats().allocation_count is the
\* number of allocate calls that returned non-null minus the number of release
\* calls on non-null pointers: in every state where get_stats can be called,
\* and for the value a get_stats call returned.
C1_AllocationCount ==
    /\ Usable => PoolStats.allocation_count = LiveCount
    /\ (status = "ok" /\ last.op = "get_stats") =>
           last.stats.allocation_count = LiveCount

\* a get_stats call on a dynamic pool of several blocks, after a release,
\* with objects still held
C1_Witness ==
    /\ kind = "dynamic" /\ status = "ok" /\ last.op = "get_stats"
    /\ num_blocks_ >= 2 /\ n_release >= 1
    /\ last.stats.allocation_count >= 2

\* C2: for a fixed pool of capacity N >= 0, an allocate call returns null if and
\* only if exactly N objects were live when it was called, and the pool never
\* holds more than N live objects.
C2_FixedCapacity ==
    (kind = "fixed" /\ status = "ok") =>
        /\ LiveCount <= cap
        /\ Cardinality(live) = LiveCount
        /\ last.op = "allocate" =>
               LET before == IF last.ptr = NULL THEN LiveCount ELSE LiveCount - 1
               IN  (last.ptr = NULL) <=> (before = cap)

\* an allocate call on a full fixed pool of capacity 2 returned null, after an
\* earlier release and re-allocation
C2_Witness ==
    /\ kind = "fixed" /\ status = "ok" /\ cap = 2
    /\ last.op = "allocate" /\ last.ptr = NULL
    /\ n_release >= 1 /\ LiveCount = cap

\* the place of a pointer in for_each's order: blocks in creation order (the
\* order of the BlockInfo records), slots in ascending index order
RECURSIVE RecordOf(_, _)
RecordOf(b, k) ==
    IF k >= Len(block_info_) THEN k
    ELSE IF block_info_[k + 1].block_ = b THEN k ELSE RecordOf(b, k + 1)

Precedes(p, q) ==
    LET kp == IF kind = "fixed" THEN 0 ELSE RecordOf(BlockOf(p), 0)
        kq == IF kind = "fixed" THEN 0 ELSE RecordOf(BlockOf(q), 0)
    IN  kp < kq \/ (kp = kq /\ SlotOf(p) < SlotOf(q))

VisitsLive(v) ==
    /\ {v[k] : k \in 1 .. Len(v)} = live
    /\ \A j, k \in 1 .. Len(v) : j < k => Precedes(v[j], v[k])
    /\ Len(v) = PoolStats.allocation_count

\* C3: for_each on a fixed or dynamic pool hands the visitor each live object
\* exactly once and no other slot, as many visits as
\* get_stats().allocation_count, blocks in creation order and slots in
\* ascending index order within a block.
C3_ForEachVisitsLive ==
    /\ Usable => VisitsLive(PoolVisits)
    /\ (status = "ok" /\ last.op = "for_each") => VisitsLive(last.visits)

\* a for_each call on a dynamic pool that visited objects of two blocks while
\* the first block had a released slot
C3_Witness ==
    /\ kind = "dynamic" /\ status = "ok" /\ last.op = "for_each"
    /\ cap = 2 /\ num_blocks_ >= 2
    /\ block_info_[1].num_free_ = 1
    /\ \E j, k \in 1 .. Len(last.visits) :
           BlockOf(last.visits[j]) # BlockOf(last.visits[k])

\* the slots of heap block b, and those of p's block other than p
SlotsOf(b) == {Base(b) + i : i \in 0 .. (cap - 1)}
OtherSlots(p) == SlotsOf(BlockOf(p)) \ {p}

\* what the caller held when the last call, an allocate, was made
LiveBefore == live \ {last.ptr}

\* the last two calls were release(p), p's block otherwise full of live
\* objects, and then allocate
ReleasedThenAllocated ==
    /\ status = "ok" /\ last.op = "allocate" /\ last.after # NULL
    /\ OtherSlots(last.after) \subseteq LiveBefore

\* every slot of every block created before p's block held a live object
EarlierBlocksFull(p) ==
    \A b \in 1 .. (BlockOf(p) - 1) : SlotsOf(b) \subseteq LiveBefore

\* C4 (as claimed): for a fixed and for a dynamic pool, if a live object at p
\* is released while every other slot of p's block holds a live object, and
\* the next call is allocate, that allocate returns p.  (Stated for the runs in
\* which no host request failed.)
C4_LIFO_AsClaimed ==
    (ReleasedThenAllocated /\ ~failed) => last.ptr = last.after

\* C4 (amended): for a fixed and for a dynamic pool, if a live object at p is
\* released while every other slot of p's block and, in a dynamic pool, every
\* slot of every block created before p's block holds a live object, and the
\* next call is allocate, that allocate returns p.
C4_LIFO_FirstFit ==
    (ReleasedThenAllocated /\ EarlierBlocksFull(last.after)) =>
        last.ptr = last.after

\* a dynamic pool of two-slot blocks: an object of the second block was
\* released, both blocks otherwise full, and the next allocate returned it
C4_Witness ==
    /\ kind = "dynamic" /\ cap = 2
    /\ ReleasedThenAllocated /\ EarlierBlocksFull(last.after)
    /\ BlockOf(last.after) = 2
    /\ last.ptr = last.after

\* C5: for a dynamic pool with per-block capacity B >= 1 in which every host
\* request succeeded, after k >= 1 successful allocations and no release,
\* block_count = ceil(k / B) (so 2 after B + 1), and block_count = 1 for a
\* freshly constructed pool.
C5_BlockCount ==
    (kind = "dynamic" /\ status = "ok" /\ cap >= 1 /\ ~failed /\ n_release = 0) =>
        LET expected == IF n_alloc = 0 THEN 1 ELSE (n_alloc + cap - 1) \div cap IN
        /\ DynGetStats.block_count = expected
        /\ last.op = "get_stats" => last.stats.block_count = expected

\* get_stats returned block_count 2 after B + 1 allocations, B = 2
C5_Witness ==
    /\ kind = "dynamic" /\ status = "ok" /\ cap = 2 /\ ~failed
    /\ n_release = 0 /\ n_alloc = cap + 1
    /\ last.op = "get_stats" /\ last.stats.block_count = 2

\* C6: with assertions enabled, destroying a pool that holds no live object
\* fails no assertion, and completes when the pool has its block; destroying
\* one that holds a live object, in whichever block, fails the assertion.
C6_DestroyChecksLive ==
    (assertions /\ last.op = "destroy") =>
        /\ LiveCount = 0 => status # "assert"
        /\ (LiveCount = 0 /\ (kind = "fixed" => block_ # NULL)) => status = "destroyed"
        /\ LiveCount > 0 => status = "assert"

\* a dynamic pool destroyed while its only live object is in the second block,
\* the first block being empty
C6_Witness ==
    /\ assertions /\ kind = "dynamic" /\ last.op = "destroy" /\ status = "assert"
    /\ LiveCount = 1
    /\ \A p \in live : BlockOf(p) = 2

\* C7: when allocate on a dynamic pool finds no block with free space and the
\* creation of the new block fails (aligned_malloc returns null), allocate
\* returns null and leaves block_count, every block's index array and
\* free_head, every cached num_free and the set of live objects unchanged.
C7_CreateFailureReturnsNull ==
    [][ (kind = "dynamic" /\ cap >= 1 /\ ~failed /\ last'.op = "allocate" /\
         last'.fail = "malloc") =>
            /\ status' = "ok"
            /\ last'.ptr = NULL
            /\ num_blocks_' = num_blocks_
            /\ blocks' = blocks
            /\ block_info_' = block_info_
            /\ live' = live ]_vars

\* C8: when realloc fails to grow the BlockInfo array during add_block,
\* allocate returns null, nothing is written through the null array and the
\* records the pool had remain reachable.
C8_ReallocFailureReturnsNull ==
    [][ (kind = "dynamic" /\ cap >= 1 /\ ~failed /\ last'.op = "allocate" /\
         last'.fail = "realloc") =>
            /\ status' = "ok"
            /\ last'.ptr = NULL
            /\ block_info_' = block_info_ ]_vars

\* C9: block creation returns null on a failed aligned_malloc without touching
\* the null block, and on a fixed pool whose block could not be allocated
\* every allocate returns null without dereferencing the missing block.
C9_NullBlockReturnsNull ==
    /\ (kind = "fixed" /\ cap >= 1 /\ last.op = "construct" /\ last.fail = "malloc") =>
           status = "ok" /\ block_ = NULL
    /\ (kind = "fixed" /\ cap >= 1 /\ last.op = "allocate" /\ block_ = NULL) =>
           status = "ok" /\ last.ptr = NULL

\* C10: after a dynamic pool that holds no live object is destroyed, no host
\* allocation it made remains outstanding: every block and the BlockInfo
\* array have been freed.
C10_DestroyFreesAll ==
    (kind = "dynamic" /\ cap >= 1 /\ status = "destroyed" /\ LiveCount = 0 /\ ~failed) =>
        heap = {}

\* ------------------------------------------------------------ byte addresses
\* detail::MIN_BLOCK_ALIGN
MIN_BLOCK_ALIGN == 64

\* sizeof(T): the element types modelled have no padding (int, double)
sizeofT == alignofT

\* create()'s block_size for n entries
block_size(n) ==
    HeaderSize + align_to(IndexSize * n, alignofT) + sizeofT * n

\* the address aligned_malloc(block_size, MIN_BLOCK_ALIGN) gave heap block b:
\* a multiple of MIN_BLOCK_ALIGN, the blocks laid out one after the other
BlockAddress(b) == b * align_to(block_size(cap), MIN_BLOCK_ALIGN)

\* the address of the object a pointer names: memory_begin() + index
ByteAddress(p) ==
    BlockAddress(BlockOf(p)) + memory_begin(cap) + SlotOf(p) * sizeofT

\* C11: every pointer returned by allocate is a multiple of alignof(T), and the
\* storage base memory_begin() is where create asserts it: block + header +
\* round_up(capacity * sizeof(index), alignof(T)).
C11_Aligned ==
    /\ (status = "ok" /\ last.op = "allocate" /\ last.ptr # NULL) =>
           ByteAddress(last.ptr) % alignofT = 0
    /\ (last.op = "construct" /\ last.fail = "none") =>
           /\ status = "ok"
           /\ memory_begin(cap) = HeaderSize + align_to(IndexSize * cap, alignofT)

\* C12: in every state the pool can be called in, for every slot i of every
\* owned block, indices[i] = i exactly when slot i holds a live object, and a
\* slot that is not live holds a value in 0 .. capacity other than i.
C12_IndexMarksLive ==
    status = "ok" =>
        \A b \in OwnedBlocks : \A i \in 0 .. (cap - 1) :
            LET x == blocks[b].indices[i] IN
            /\ (x = i) <=> (Base(b) + i \in live)
            /\ (x # i) => (x \in 0 .. cap)

\* a released slot holds the end-of-list value while its neighbour is live
C12_Witness ==
    /\ status = "ok"
    /\ last.op = "release"
    /\ \E b \in OwnedBlocks : \E i, j \in 0 .. (cap - 1) :
           /\ blocks[b].indices[i] = cap
           /\ Base(b) + i = last.ptr
           /\ blocks[b].indices[j] = j

\* the number of live objects in the block of BlockInfo record k (1-based)
LiveIn(k) == Cardinality(live \cap SlotsOf(block_info_[k].block_))

\* C13: between operations of a DynamicPool, every block's cached num_free_
\* equals entries_per_block minus the number of its slots with indices[i] = i
\* (its live objects), so it stays in 0 .. entries_per_block, and new_object's
\* assertion ptr != nullptr on the block it chose never fails.  Stated for
\* runs in which no host allocation failed.
C13_NumFreeInSync ==
    (kind = "dynamic" /\ ~failed) =>
        /\ status = "ok" =>
               \A k \in 1 .. num_blocks_ :
                   /\ block_info_[k].num_free_ =
                          entries_per_block_ - count_allocations(block_info_[k].block_)
                   /\ count_allocations(block_info_[k].block_) = LiveIn(k)
                   /\ block_info_[k].num_free_ \in 0 .. entries_per_block_
        /\ (status = "assert" /\ last.op = "allocate") =>
               \/ free_block_index_ = num_blocks_
               \/ ~CreateAssertHolds(entries_per_block_)

\* every record before free_block_index_ has no free entry
HintIsLowerBound ==
    \A k \in 1 .. free_block_index_ : block_info_[k].num_free_ = 0

\* C14: in a DynamicPool every block before free_block_index_ has
\* num_free_ = 0; new_object never lowers free_block_index_ and delete_object
\* never raises it.
C14_HintLowerBound ==
    [][(kind = "dynamic" /\ status = "ok" /\ status' = "ok") =>
           /\ HintIsLowerBound'
           /\ free_block_index_' <= num_blocks_'
           /\ last'.op = "allocate" => free_block_index_' >= free_block_index_
           /\ last'.op = "release" => free_block_index_' <= free_block_index_]_vars

\* DynamicPool(1) after allocate, allocate, release of the first object: the
\* second allocate moved free_block_index_ to the new block 1 and the release
\* brought it back to block 0
C14_Witness ==
    /\ kind = "dynamic" /\ status = "ok" /\ cap = 1
    /\ n_alloc = 2 /\ n_release = 1 /\ ~failed
    /\ last.op = "release" /\ last.ptr = Base(block_info_[1].block_)
    /\ num_blocks_ = 2
    /\ free_block_index_ = 0
    /\ block_info_[2].num_free_ = 0

\* every slot of the blocks of records 1 .. k holds a live object
BlocksFull(k) ==
    \A j \in 1 .. k : SlotsOf(block_info_[j].block_) \subseteq live

\* C15: every successful new_object of a DynamicPool places the object in a
\* free slot of the lowest-indexed block that has one (every earlier block is
\* full when the call is made); a call adds a block only when every existing
\* block is full, and only new_object adds one; num_blocks_ never decreases.
C15_FirstFit ==
    [][(kind = "dynamic" /\ status = "ok" /\ status' = "ok") =>
           /\ num_blocks_' >= num_blocks_
           /\ num_blocks_' > num_blocks_ =>
                  /\ last'.op = "allocate"
                  /\ num_blocks_' = num_blocks_ + 1
                  /\ BlocksFull(num_blocks_)
           /\ (last'.op = "allocate" /\ last'.ptr # NULL) =>
                  \E k \in 1 .. num_blocks_' :
                      /\ last'.ptr \in SlotsOf(block_info_'[k].block_) \ live
                      /\ BlocksFull(k - 1)]_vars

\* new_object put the object in block 0 while block 1 had a free entry too
C15_Witness ==
    /\ kind = "dynamic" /\ status = "ok" /\ ~failed
    /\ last.op = "allocate" /\ last.ptr # NULL
    /\ n_release > 0
    /\ num_blocks_ >= 2
    /\ last.ptr \in SlotsOf(block_info_[1].block_)
    /\ block_info_[2].num_free_ > 0
    /\ SlotsOf(block_info_[2].block_) \ live # {}

\* the head of heap block b's free list is the end-of-list value or names an
\* entry that is not marked used: new_object's assertion indices[index] != index
HeadIsFree(b) ==
    LET index == blocks[b].free_head_index_ IN
    index # blocks[b].entries_per_block_ =>
        /\ index \in 0 .. (blocks[b].entries_per_block_ - 1)
        /\ blocks[b].indices[index] # index

\* C16: no slot is handed out twice.  An allocate that returns an object
\* returns a slot of an owned block that held no live object; the objects the
\* caller holds are as many as the allocations not yet released (no two share
\* a slot); in every block new_object's assertion indices[index] != index
\* holds for the next call; no block holds more than entries_per_block objects.
C16_NoSlotTwice ==
    [][status' = "ok" =>
           /\ (last'.op = "allocate" /\ last'.ptr # NULL) =>
                  /\ last'.ptr \notin live
                  /\ \E b \in OwnedBlocks' : last'.ptr \in SlotsOf(b)
           /\ Cardinality(live') = n_alloc' - n_release'
           /\ live' \subseteq UNION {SlotsOf(b) : b \in OwnedBlocks'}
           /\ \A b \in OwnedBlocks' :
                  /\ HeadIsFree(b)'
                  /\ count_allocations(b)' <= cap
                  /\ count_allocations(b)' = Cardinality(live' \cap SlotsOf(b))]_vars

\* an allocate returned the slot of an object released before, next to a
\* live object of the same block
C16_Witness ==
    /\ status = "ok" /\ last.op = "allocate" /\ last.ptr # NULL
    /\ last.after = last.ptr
    /\ OtherSlots(last.ptr) \cap live # {}
    /\ n_alloc = Cardinality(live) + n_release

\* the entries met by following indices[] from entry i, at most fuel of them,
\* and the value the walk stopped at
RECURSIVE FreeWalk(_, _, _)
FreeWalk(blk, i, fuel) ==
    IF fuel = 0 \/ i \notin 0 .. (blk.entries_per_block_ - 1)
    THEN [seq |-> << >>, end |-> i]
    ELSE LET w == FreeWalk(blk, blk.indices[i], fuel - 1) IN
         [seq |-> << i >> \o w.seq, end |-> w.end]

\* the free list of heap block b, walked from free_head_index_
FreeList(b) ==
    FreeWalk(blocks[b], blocks[b].free_head_index_, blocks[b].entries_per_block_ + 1)

\* the entries of heap block b that hold no live object
NotLive(b) == {i \in 0 .. (cap - 1) : Base(b) + i \notin live}

\* C17: in every state the pool can be called in, following indices[] from
\* free_head_index_ in an owned block visits every entry that is not live
\* exactly once and no live entry, and ends at the value entries_per_block;
\* free_head_index_ = entries_per_block exactly when every entry is live; the
\* length of the free list plus the number of live objects is the capacity.
C17_FreeListWellFormed ==
    status = "ok" =>
        \A b \in OwnedBlocks :
            LET w == FreeList(b) IN
            /\ w.end = cap
            /\ {w.seq[k] : k \in 1 .. Len(w.seq)} = NotLive(b)
            /\ \A j, k \in 1 .. Len(w.seq) : j # k => w.seq[j] # w.seq[k]
            /\ (blocks[b].free_head_index_ = cap) <=> (SlotsOf(b) \subseteq live)
            /\ Len(w.seq) + Cardinality(live \cap SlotsOf(b)) = cap

\* two releases left a free list that runs 1, 0, end
C17_Witness ==
    /\ status = "ok" /\ last.op = "release" /\ cap = 2
    /\ \E b \in OwnedBlocks :
           /\ last.ptr = Base(b) + 1
           /\ FreeList(b) = [seq |-> << 1, 0 >>, end |-> 2]

\* C18: a DynamicPool stays usable after an allocation failure.  In the state
\* left by a new_object that returned null because the block could not be
\* created, or by a constructor whose first block could not be created, the
\* entry assertion of the next new_object, free_block_index_ < num_blocks_,
\* holds.
C18_UsableAfterFailure ==
    (/\ kind = "dynamic" /\ cap >= 1 /\ status = "ok"
     /\ last.op \in {"allocate", "construct"}
     /\ last.fail = "malloc") =>
        free_block_index_ < num_blocks_

\* C19: with assertions enabled, in a fixed and in a dynamic pool, a release
\* of a pointer to an entry of an owned block that holds no live object fails
\* the assertion indices[index] == index, and the index arrays, the free-list
\* heads, the cached num_free_ and the hint are as they were before the call.
C19_DoubleReleaseAsserts ==
    [][(/\ assertions /\ status = "ok"
        /\ last'.op = "release"
        /\ last'.ptr \in OwnedSlots \ live) =>
           /\ status' = "assert"
           /\ blocks' = blocks
           /\ block_info_' = block_info_
           /\ free_block_index_' = free_block_index_
           /\ num_blocks_' = num_blocks_]_vars

\* release(p) of a live p, then release(p) again, other objects still live:
\* the second call failed the assertion
C19_Witness ==
    /\ assertions /\ status = "assert"
    /\ last.op = "release" /\ last.ptr # NULL
    /\ last.after = last.ptr
    /\ last.ptr \in OwnedSlots \ live
    /\ live # {}

\* C20: a DynamicPool release of a pointer that lies in the storage range of
\* no owned block, the null pointer included, fails no assertion and leaves
\* the index arrays, the free-list heads, every num_free_, the hint and
\* num_blocks_ unchanged.
C20_ForeignReleaseNoOp ==
    [][(/\ kind = "dynamic" /\ status = "ok"
        /\ last'.op = "release"
        /\ last'.ptr \notin OwnedSlots) =>
           /\ status' = "ok"
           /\ blocks' = blocks
           /\ block_info_' = block_info_
           /\ free_block_index_' = free_block_index_
           /\ num_blocks_' = num_blocks_
           /\ live' = live]_vars

\* the pointer one past the storage of a block whose entries are all live was
\* released, with assertions enabled, and the pool went on
C20_Witness ==
    /\ kind = "dynamic" /\ status = "ok" /\ assertions /\ cap >= 1
    /\ last.op = "release" /\ last.ptr # NULL
    /\ \E b \in OwnedBlocks :
           /\ last.ptr = Base(b) + cap
           /\ SlotsOf(b) \subseteq live

====
